---- MODULE Spec2Model ----
(***************************************************************************)
(* Model of the authentication/session core of jira-mcp (src/src/index.ts) *)
(* and of the tool handlers that use it.  The process-wide credential slot *)
(* inMemoryAuth, the keytar-backed durable entry, the environment and the  *)
(* clock are the state; every tool invocation is a process that advances   *)
(* from one await to the next, so invocations interleave exactly where the *)
(* event loop lets them.                                                   *)
(***************************************************************************)
EXTENDS Integers, Sequences, FiniteSets, TLC

(***************************************************************************)
(* Bounds of the model.                                                    *)
(***************************************************************************)
\* Number of tool invocations one behaviour starts.
MaxCalls == 3
\* Number of one-minute clock steps one behaviour takes.
MaxTicks == 1

\* The two concurrently running tool invocations.
Procs == {1, 2}

(***************************************************************************)
(* JavaScript values.  An object is a record over a fixed set of fields;   *)
(* a field the object does not carry is Undef (NoNum for the numeric       *)
(* field expiresAt).  The field js tells null, an object and a primitive   *)
(* apart.                                                                  *)
(***************************************************************************)
Undef == "undefined"
NoNum == -1
NoUrl == << >>

Null ==
  [js |-> "null", type |-> Undef, baseUrl |-> NoUrl, email |-> Undef,
   apiToken |-> Undef, clientId |-> Undef, clientSecret |-> Undef,
   accessToken |-> Undef, refreshToken |-> Undef, cloudId |-> Undef,
   expiresAt |-> NoNum]

\* {} : an object that carries none of the fields.
EmptyObject == [Null EXCEPT !.js = "object"]


BasicAuthConfig(baseUrl, email, apiToken) ==
  [EmptyObject EXCEPT !.type = "basic", !.baseUrl = baseUrl, !.email = email,
                      !.apiToken = apiToken]

OAuthConfig(clientId, clientSecret, accessToken, refreshToken, cloudId, expiresAt) ==
  [EmptyObject EXCEPT !.type = "oauth", !.clientId = clientId,
                      !.clientSecret = clientSecret, !.accessToken = accessToken,
                      !.refreshToken = refreshToken, !.cloudId = cloudId,
                      !.expiresAt = expiresAt]

\* JavaScript truthiness of a value held in a variable of object type.
Truthy(v) == v.js # "null"
\* Truthiness of a string-valued and of a number-valued property.
TruthyStr(s) == s # Undef /\ s # ""
TruthyNum(n) == n # NoNum /\ n # 0
\* { ...v } : spreading null gives the empty object.
Spread(v) == IF v.js = "object" THEN v ELSE EmptyObject
\* Reading a property of null throws a TypeError.
ReadThrows(v) == v.js = "null"

(***************************************************************************)
(* Errors and tool results.                                                *)
(***************************************************************************)
\* cls: "Error" | "TypeError" | "AxiosError", or "NonError" for a thrown
\* value that is no Error; status 0: no HTTP response.
Err(cls, message, status) == [cls |-> cls, message |-> message, status |-> status]
MissingAuthError == Err("Error", "MISSING_AUTH", 0)
InvalidUrlError == Err("Error", "baseUrl must be a valid URL", 0)
KeytarUnavailableError == Err("Error", "Keytar is not available to persist credentials.", 0)
KeytarFailure == Err("Error", "keytar operation failed", 0)
NullReadError == Err("TypeError", "Cannot read properties of null", 0)
HttpError(status) == Err("AxiosError", "Request failed", status)

NoResult == [kind |-> "none", error |-> Undef, message |-> Undef]
\* textResult(value) with a success payload.
Success(message) == [kind |-> "ok", error |-> Undef, message |-> message]
\* textResult({ error, message }).
Failure(error, message) == [kind |-> "error", error |-> error, message |-> message]
\* The exception left the handler: no result payload was returned.
Thrown(e) == [kind |-> "thrown", error |-> e.cls, message |-> e.message]

\* errorToResult with 500 as the only server error.
errorToResult_Only500(e) ==
  IF e.cls \in {"Error", "TypeError"} /\ e.message = "MISSING_AUTH"
    THEN Failure("unauthorized",
                 "Jira credentials are missing. Provide credentials explicitly to authenticate.")
  ELSE IF e.cls = "AxiosError"
    THEN IF e.status = 401
           THEN Failure("unauthorized",
                        "Jira credentials are missing or invalid. If using OAuth, the token may have expired.")
         ELSE IF e.status = 403
           THEN Failure("forbidden", "You do not have permission to access this Jira resource.")
         ELSE IF e.status = 404
           THEN Failure("not_found", "The Jira resource does not exist or is not visible.")
         ELSE IF e.status = 429
           THEN Failure("rate_limited", "Jira rate limit exceeded. Please retry later.")
         ELSE IF e.status # 0 /\ e.status = 500
           THEN Failure("server_error", "Jira server error. Please retry later.")
         ELSE Failure("jira_error", "Jira API error")
  ELSE IF e.cls \in {"Error", "TypeError"} THEN Failure("unknown", e.message)
  ELSE Failure("unknown", "Unknown error")

\* errorToResult with an error code of its own for MISSING_AUTH.
errorToResult_MissingKind(e) ==
  IF e.cls \in {"Error", "TypeError"} /\ e.message = "MISSING_AUTH"
    THEN Failure("missing_auth",
                 "Jira credentials are missing. Provide credentials explicitly to authenticate.")
  ELSE IF e.cls = "AxiosError"
    THEN IF e.status = 401
           THEN Failure("unauthorized",
                        "Jira credentials are missing or invalid. If using OAuth, the token may have expired.")
         ELSE IF e.status = 403
           THEN Failure("forbidden", "You do not have permission to access this Jira resource.")
         ELSE IF e.status = 404
           THEN Failure("not_found", "The Jira resource does not exist or is not visible.")
         ELSE IF e.status = 429
           THEN Failure("rate_limited", "Jira rate limit exceeded. Please retry later.")
         ELSE IF e.status # 0 /\ e.status >= 500
           THEN Failure("server_error", "Jira server error. Please retry later.")
         ELSE Failure("jira_error", "Jira API error")
  ELSE IF e.cls \in {"Error", "TypeError"} THEN Failure("unknown", e.message)
  ELSE Failure("unknown", "Unknown error")

errorToResult(e) ==
  IF e.cls \in {"Error", "TypeError"} /\ e.message = "MISSING_AUTH"
    THEN Failure("unauthorized",
                 "Jira credentials are missing. Provide credentials explicitly to authenticate.")
  ELSE IF e.cls = "AxiosError"
    THEN IF e.status = 401
           THEN Failure("unauthorized",
                        "Jira credentials are missing or invalid. If using OAuth, the token may have expired.")
         ELSE IF e.status = 403
           THEN Failure("forbidden", "You do not have permission to access this Jira resource.")
         ELSE IF e.status = 404
           THEN Failure("not_found", "The Jira resource does not exist or is not visible.")
         ELSE IF e.status = 429
           THEN Failure("rate_limited", "Jira rate limit exceeded. Please retry later.")
         ELSE IF e.status # 0 /\ e.status >= 500
           THEN Failure("server_error", "Jira server error. Please retry later.")
         ELSE Failure("jira_error", "Jira API error")
  ELSE IF e.cls \in {"Error", "TypeError"} THEN Failure("unknown", e.message)
  ELSE Failure("unknown", "Unknown error")

(***************************************************************************)
(* normalizeBaseUrl.  A URL string is a sequence: the origin followed by   *)
(* the characters of the path.  new URL() throws unless the text starts    *)
(* with an origin; the pathname of a URL without path is "/".              *)
(***************************************************************************)
Origins == {"https://x.atlassian.net", "https://y.atlassian.net"}

\* The head of a url whose scheme gives it no origin of its own: new URL
\* parses it and its origin is the string "null".
OpaqueHeads == {"file://"}

UrlParses(input) ==
  /\ Len(input) >= 1
  /\ input[1] \in Origins \cup OpaqueHeads
  /\ Len(input) >= 2 => input[2] = "/"

Pathname(input) == IF Len(input) = 1 THEN <<"/">> ELSE Tail(input)

RECURSIVE TrimTrailingSlashes(_)
TrimTrailingSlashes(path) ==
  IF path # << >> /\ path[Len(path)] = "/"
    THEN TrimTrailingSlashes(SubSeq(path, 1, Len(path) - 1))
    ELSE path

normalizeBaseUrlThrows(input) == ~UrlParses(input)
\* parsed.origin
OriginOf(input) == IF input[1] \in Origins THEN input[1] ELSE "null"
\* normalizeBaseUrl without the replace of the trailing slashes.
normalizeBaseUrl_NoTrim(input) == <<OriginOf(input)>> \o Pathname(input)
normalizeBaseUrl(input) == <<OriginOf(input)>> \o TrimTrailingSlashes(Pathname(input))

(***************************************************************************)
(* Credential sources read from the environment.  env is process.env; an   *)
(* unset variable is Undef (NoUrl for JIRA_BASE_URL).                      *)
(***************************************************************************)
basicAuthFromEnvIsNull(e) ==
  e.JIRA_BASE_URL = NoUrl \/ ~TruthyStr(e.JIRA_EMAIL) \/ ~TruthyStr(e.JIRA_API_TOKEN)
basicAuthFromEnvThrows(e) ==
  ~basicAuthFromEnvIsNull(e) /\ normalizeBaseUrlThrows(e.JIRA_BASE_URL)
basicAuthFromEnv(e) ==
  IF basicAuthFromEnvIsNull(e) THEN Null
  ELSE BasicAuthConfig(normalizeBaseUrl(e.JIRA_BASE_URL), e.JIRA_EMAIL, e.JIRA_API_TOKEN)

oauthFromEnv(e) ==
  IF \/ ~TruthyStr(e.JIRA_OAUTH_CLIENT_ID) \/ ~TruthyStr(e.JIRA_OAUTH_CLIENT_SECRET)
     \/ ~TruthyStr(e.JIRA_OAUTH_ACCESS_TOKEN) \/ ~TruthyStr(e.JIRA_CLOUD_ID)
    THEN Null
    ELSE OAuthConfig(e.JIRA_OAUTH_CLIENT_ID, e.JIRA_OAUTH_CLIENT_SECRET,
                     e.JIRA_OAUTH_ACCESS_TOKEN, e.JIRA_OAUTH_REFRESH_TOKEN,
                     e.JIRA_CLOUD_ID, NoNum)

(***************************************************************************)
(* The durable entry: the text keytar holds under (AUTH_SERVICE,           *)
(* AUTH_ACCOUNT).  wf says whether JSON.parse accepts the text, val is the *)
(* value it parses to.                                                     *)
(***************************************************************************)
NoEntry == [present |-> FALSE, wf |-> FALSE, val |-> Null]
\* JSON.stringify drops the properties that are undefined and JSON.parse
\* gives back an object without them, which is how val already reads.
JSONstringify(v) == [present |-> TRUE, wf |-> TRUE, val |-> v]
JSONparseThrows(text) == ~text.wf
JSONparse(text) == text.val

\* authFromKeytar from the point where getPassword has answered `entry`.
authFromKeytar(entry) ==
  IF ~entry.present THEN Null
  ELSE IF JSONparseThrows(entry) THEN Null
  ELSE IF ReadThrows(JSONparse(entry)) THEN Null
  ELSE IF JSONparse(entry).type = "basic"
    THEN IF normalizeBaseUrlThrows(JSONparse(entry).baseUrl) THEN Null
         ELSE [JSONparse(entry) EXCEPT !.baseUrl = normalizeBaseUrl(JSONparse(entry).baseUrl)]
  ELSE JSONparse(entry)

(***************************************************************************)
(* getAuthOrThrow.                                                         *)
(***************************************************************************)
\* 5 * 60 * 1000 ms.
RefreshWindowMs == 5 * 60 * 1000

\* A guard that lets a token with exactly five minutes left pass as fresh.
NeedsRefresh_Strict(mem, t) ==
  /\ mem.type = "oauth"
  /\ TruthyNum(mem.expiresAt)
  /\ TruthyStr(mem.refreshToken)
  /\ t > mem.expiresAt - RefreshWindowMs

\* The guard of the refresh: lines 330 and 333.
NeedsRefresh(mem, t) ==
  /\ mem.type = "oauth"
  /\ TruthyNum(mem.expiresAt)
  /\ TruthyStr(mem.refreshToken)
  /\ t >= mem.expiresAt - RefreshWindowMs

\* A getAuthOrThrow that reads the Basic variables of the environment
\* before the OAuth ones.
GetAuthEntry_BasicFirst(mem, e, t) ==
  IF Truthy(mem)
    THEN IF NeedsRefresh(mem, t)
           THEN [step |-> "refresh", val |-> mem, src |-> "memory", err |-> MissingAuthError]
           ELSE [step |-> "return", val |-> mem, src |-> "memory", err |-> MissingAuthError]
  ELSE IF basicAuthFromEnvThrows(e)
    THEN [step |-> "throw", val |-> Null, src |-> "error", err |-> InvalidUrlError]
  ELSE IF Truthy(basicAuthFromEnv(e))
    THEN [step |-> "return", val |-> basicAuthFromEnv(e), src |-> "basicEnv", err |-> MissingAuthError]
  ELSE IF Truthy(oauthFromEnv(e))
    THEN [step |-> "return", val |-> oauthFromEnv(e), src |-> "oauthEnv", err |-> MissingAuthError]
  ELSE [step |-> "keytar", val |-> Null, src |-> "none", err |-> MissingAuthError]

\* The synchronous part of getAuthOrThrow, up to its first await or its
\* return.  step: "refresh" (a refresh request is sent), "return",
\* "throw", "keytar" (authFromKeytar is awaited).
GetAuthEntry(mem, e, t) ==
  IF Truthy(mem)
    THEN IF NeedsRefresh(mem, t)
           THEN [step |-> "refresh", val |-> mem, src |-> "memory", err |-> MissingAuthError]
           ELSE [step |-> "return", val |-> mem, src |-> "memory", err |-> MissingAuthError]
  ELSE IF Truthy(oauthFromEnv(e))
    THEN [step |-> "return", val |-> oauthFromEnv(e), src |-> "oauthEnv", err |-> MissingAuthError]
  ELSE IF basicAuthFromEnvThrows(e)
    THEN [step |-> "throw", val |-> Null, src |-> "error", err |-> InvalidUrlError]
  ELSE IF Truthy(basicAuthFromEnv(e))
    THEN [step |-> "return", val |-> basicAuthFromEnv(e), src |-> "basicEnv", err |-> MissingAuthError]
  ELSE [step |-> "keytar", val |-> Null, src |-> "none", err |-> MissingAuthError]

\* The assignment of lines 340-345, evaluated when the response arrives.
\* Reading inMemoryAuth.refreshToken throws when the slot is null and the
\* response carries no refresh token.
ApplyRefreshThrows(mem, tokens) == ~TruthyStr(tokens.refreshToken) /\ ReadThrows(mem)
\* An assignment that always keeps the refresh token the slot holds.
ApplyRefresh_KeepsRefreshToken(mem, tokens, t) ==
  [Spread(mem) EXCEPT
     !.accessToken = tokens.accessToken,
     !.refreshToken = mem.refreshToken,
     !.expiresAt = t + tokens.expiresIn * 1000]
\* A refresh that adds expires_in to the clock without scaling it.
ApplyRefresh_Seconds(mem, tokens, t) ==
  [Spread(mem) EXCEPT
     !.accessToken = tokens.accessToken,
     !.refreshToken = IF TruthyStr(tokens.refreshToken) THEN tokens.refreshToken
                      ELSE mem.refreshToken,
     !.expiresAt = t + tokens.expiresIn]

ApplyRefresh(mem, tokens, t) ==
  [Spread(mem) EXCEPT
     !.accessToken = tokens.accessToken,
     !.refreshToken = IF TruthyStr(tokens.refreshToken) THEN tokens.refreshToken
                      ELSE mem.refreshToken,
     !.expiresAt = t + tokens.expiresIn * 1000]

\* updatedAuth of jira_oauth_refresh, lines 974-979.
UpdatedAuth(a, tokens, t) ==
  [Spread(a) EXCEPT
     !.accessToken = tokens.accessToken,
     !.refreshToken = IF TruthyStr(tokens.refreshToken) THEN tokens.refreshToken
                      ELSE a.refreshToken,
     !.expiresAt = t + tokens.expiresIn * 1000]

(***************************************************************************)
(* getCloudIdFromResources, from the point where the accessible-resources  *)
(* request has answered `resources` (a sequence of [id, url]).             *)
(***************************************************************************)
RECURSIVE FindSite(_, _)
\* find comparing the url of a resource as it was received.
FindSite_Raw(resources, normalizedSiteUrl) ==
  IF resources = << >> THEN 0
  ELSE IF Head(resources).url = normalizedSiteUrl THEN 1
  ELSE IF FindSite(Tail(resources), normalizedSiteUrl) = 0 THEN 0
  ELSE 1 + FindSite(Tail(resources), normalizedSiteUrl)

\* resources.find(r => normalizeBaseUrl(r.url) === normalizedSiteUrl): the
\* index of the first match, 0 when there is none.
FindSite(resources, normalizedSiteUrl) ==
  IF resources = << >> THEN 0
  ELSE IF normalizeBaseUrl(Head(resources).url) = normalizedSiteUrl THEN 1
  ELSE IF FindSite(Tail(resources), normalizedSiteUrl) = 0 THEN 0
  ELSE 1 + FindSite(Tail(resources), normalizedSiteUrl)

NoSitesError == Err("Error", "No accessible Jira sites found.", 0)
\* The message ends with the url of every resource (sites).
SiteNotFoundError(resources) ==
  [cls |-> "Error", message |-> "Site not found in accessible resources. Available sites:",
   status |-> 0, sites |-> [k \in 1..Len(resources) |-> resources[k].url]]

getCloudIdFromResourcesError(resources, siteUrl) ==
  IF Len(resources) = 0 THEN NoSitesError
  ELSE IF siteUrl # NoUrl /\ normalizeBaseUrlThrows(siteUrl) THEN InvalidUrlError
  ELSE SiteNotFoundError(resources)
getCloudIdFromResourcesThrows(resources, siteUrl) ==
  \/ Len(resources) = 0
  \/ /\ siteUrl # NoUrl
     /\ \/ normalizeBaseUrlThrows(siteUrl)
        \/ FindSite(resources, normalizeBaseUrl(siteUrl)) = 0
getCloudIdFromResources(resources, siteUrl) ==
  IF siteUrl # NoUrl
    THEN resources[FindSite(resources, normalizeBaseUrl(siteUrl))].id
    ELSE resources[1].id

(***************************************************************************)
(* Inputs: what the environment, the callers and the servers may supply.   *)
(***************************************************************************)
MinuteMs == 60 * 1000
\* Date.now() when the process starts.
ClockStart == 10 * MinuteMs

UnsetEnv ==
  [JIRA_BASE_URL |-> NoUrl, JIRA_EMAIL |-> Undef, JIRA_API_TOKEN |-> Undef,
   JIRA_OAUTH_CLIENT_ID |-> Undef, JIRA_OAUTH_CLIENT_SECRET |-> Undef,
   JIRA_OAUTH_ACCESS_TOKEN |-> Undef, JIRA_OAUTH_REFRESH_TOKEN |-> Undef,
   JIRA_CLOUD_ID |-> Undef]
WithBasicEnv(e, url) ==
  [e EXCEPT !.JIRA_BASE_URL = url, !.JIRA_EMAIL = "env@acme.com", !.JIRA_API_TOKEN = "envT"]
WithOAuthEnv(e, cloudId) ==
  [e EXCEPT !.JIRA_OAUTH_CLIENT_ID = "cidE", !.JIRA_OAUTH_CLIENT_SECRET = "secE",
            !.JIRA_OAUTH_ACCESS_TOKEN = "atE", !.JIRA_OAUTH_REFRESH_TOKEN = "rtE",
            !.JIRA_CLOUD_ID = cloudId]
GoodUrl == <<"https://x.atlassian.net", "/">>
BadUrl == <<"not a url">>
Environments ==
  { UnsetEnv,
    WithBasicEnv(UnsetEnv, GoodUrl),
    WithBasicEnv(UnsetEnv, BadUrl),
    WithOAuthEnv(UnsetEnv, "cloudE"),
    WithOAuthEnv(WithBasicEnv(UnsetEnv, GoodUrl), "cloudE"),
    \* JIRA_CLOUD_ID missing: the OAuth source does not resolve.
    WithOAuthEnv(WithBasicEnv(UnsetEnv, GoodUrl), Undef) }

BaseUrlInputs == { <<"https://x.atlassian.net">>, GoodUrl, BadUrl }
SecretOf(clientId) == IF clientId = "cid1" THEN "sec1" ELSE "sec2"

\* Lifetimes (seconds) the token endpoint may grant: two minutes, and one
\* minute more than the refresh window.  A token endpoint grants the same
\* lifetime throughout a run (tokenLifetime).
Lifetimes == {120, 360}
\* What the token endpoint answers to a code exchange, and to a refresh
\* sent by the invocation in handler slot p: two refreshes in flight at the
\* same time receive different tokens.
ExchangeResponses ==
  [accessToken : {"atX"}, refreshToken : {Undef, "rtX"}, expiresIn : Lifetimes]
RefreshResponses(p) ==
  [accessToken : {"atR" \o ToString(p)}, refreshToken : {Undef, "rtR" \o ToString(p)},
   expiresIn : Lifetimes]
TokenFailures == { HttpError(400) }
JiraStatuses == {200, 401, 429, 0}

SiteX == [id |-> "cloudX", url |-> <<"https://x.atlassian.net">>]
SiteY == [id |-> "cloudY", url |-> <<"https://y.atlassian.net", "/">>]
ResourceLists == { << >>, <<SiteX, SiteY>> }
SiteUrlInputs == { NoUrl }

\* What the durable entry may hold when the process starts.
StoredOAuth == JSONstringify(OAuthConfig("cidK", "secK", "atK", "rtK", "cloudK", NoNum))
\* An OAuth credential persisted by an earlier run of the server, whose
\* access token expires two minutes after this run starts.
StoredExpiring ==
  JSONstringify(OAuthConfig("cidK", "secK", "atK", "rtK", "cloudK", ClockStart + 2 * MinuteMs))
\* Text that JSON.parse rejects.
Garbage == [present |-> TRUE, wf |-> FALSE, val |-> Null]
InitialEntries ==
  { NoEntry, StoredOAuth, StoredExpiring, JSONstringify(EmptyObject), Garbage }

(***************************************************************************)
(* State.                                                                  *)
(***************************************************************************)
VARIABLES
  inMemoryAuth,     \* let inMemoryAuth: AuthConfig | null
  keytarInstalled,  \* whether import("keytar") succeeds on this host
  stored,           \* the durable entry
  env,              \* process.env
  now,              \* Date.now()
  calls,            \* number of tool invocations started
  inv,              \* the tool invocations in progress, one record each
  last,             \* what the step just taken handed back (history)
  cleared,          \* "yes": clearAuth has completed and no set tool has taken a
                    \* step since it began; "clearing": it has begun (history)
  tokenLifetime,    \* expires_in (seconds) that the token endpoint grants
  input,            \* the arguments of a function applied on its own
  output            \* what it returned

vars == <<inMemoryAuth, keytarInstalled, stored, env, now, calls, inv, last, cleared,
          tokenLifetime, input, output>>

\* The locals of jira_get_user_worklogs: accountId given, includeIssueDetails,
\* pageCount, allWorklogIds.length (issueIdsOrKeys.length in a bulk tool), the index i of the batch loop,
\* uniqueIssueIds.length, the index of the issue loop; and the
\* moveIncompleteIssuesTo argument of jira_complete_sprint (NoNum: omitted).
NoLocals ==
  [account |-> FALSE, details |-> FALSE, pageCount |-> 0, ids |-> 0, i |-> 0,
   issues |-> 0, j |-> 0, moveIncompleteIssuesTo |-> NoNum]

\* An invocation in progress: tool, position (pc) and locals:
\* auth, persist, siteUrl, expiresIn, and sent, the credential whose refresh
\* token is in the refresh request in flight; confirm, the confirmDelete
\* argument; reqs, the network requests the invocation has sent, in order
\* (history).
Idle ==
  [tool |-> "none", pc |-> "idle", auth |-> Null, persist |-> FALSE,
   siteUrl |-> NoUrl, expiresIn |-> 0, sent |-> Null, confirm |-> FALSE,
   reqs |-> << >>, loc |-> NoLocals]

\* What a step handed back.  result: the payload, when the handler ended in
\* the step.  When getAuthOrThrow settled in the step: resolved ("returned"
\* or "threw"), got (the value returned), rerr (the message thrown), src
\* (the source the value came from), entry (the slot when getAuthOrThrow
\* was entered), refreshes (the refresh requests it sent).  refresh: how a
\* refresh response was handled in the step ("applied", "threw", "failed"
\* inside getAuthOrThrow; "manual", "manual_failed" in jira_oauth_refresh).  jiraReqs: the Jira requests
\* the ended invocation had sent.  persist: the ended invocation asked for
\* persistence.  tokens: the token response handled in the step.  logged:
\* what the step wrote to the console.  reqs:
\* the network requests the ended invocation had sent ("429" marks a
\* response with that status).  confirm: its confirmDelete argument.
\* posted: the body of the request jira_complete_sprint posted.  movedTo:
\* the incompleteIssuesMovedTo of its result.
NoTokens == [accessToken |-> Undef, refreshToken |-> Undef, expiresIn |-> 0]
\* What console.error was given in the step: the text, and the error object
\* (its class, and for an error of axios the body of the request it was
\* raised for, which the error carries as config.data).
NoBody == [client_id |-> Undef, client_secret |-> Undef, refresh_token |-> Undef]
NoLog == [text |-> Undef, cls |-> Undef, data |-> NoBody]
\* The body refreshAccessToken posts for the credential a: lines 250-255.
RefreshBody(a) ==
  [client_id |-> a.clientId, client_secret |-> a.clientSecret, refresh_token |-> a.refreshToken]
\* console.error("Failed to refresh OAuth token:", error): line 348.
RefreshFailureLog(e, a) ==
  [text |-> "Failed to refresh OAuth token:", cls |-> e.cls,
   data |-> IF e.cls = "AxiosError" THEN RefreshBody(a) ELSE NoBody]
\* No body posted; no target reported.
NoPost == [state |-> Undef]
NoTarget == [js |-> "undefined", val |-> NoNum, str |-> Undef]
NoEvent ==
  [tool |-> "none", result |-> NoResult, resolved |-> "none", got |-> Null,
   rerr |-> Undef, src |-> "none", entry |-> Null, refreshes |-> 0,
   refresh |-> "none", tokens |-> NoTokens, jiraReqs |-> 0, persist |-> FALSE,
   reqs |-> << >>, confirm |-> FALSE, logged |-> NoLog, posted |-> NoPost,
   movedTo |-> NoTarget]

\* No function is applied on its own.
NoInput == [fn |-> "none"]
NoOutput == [threw |-> FALSE, val |-> Undef]

\* The state when the server starts on a host: nothing in memory.
Starts ==
  /\ inMemoryAuth = Null
  /\ now = ClockStart
  /\ calls = 0
  /\ inv = [p \in Procs |-> Idle]
  /\ last = NoEvent
  /\ cleared = "no"
  /\ input = NoInput
  /\ output = NoOutput

\* Every host: any environment, keytar installed or not, any durable entry.
InitAnyHost ==
  /\ Starts
  /\ keytarInstalled \in BOOLEAN
  /\ stored \in (IF keytarInstalled THEN InitialEntries ELSE {NoEntry})
  /\ env \in Environments
  /\ tokenLifetime \in Lifetimes

\* The hosts of the concurrent specification, which have no credential in
\* the environment: keytar missing, or keytar holding an OAuth credential.
Init ==
  /\ Starts
  /\ env = UnsetEnv
  /\ tokenLifetime = 360
  /\ \/ keytarInstalled = FALSE /\ stored = NoEntry
     \/ keytarInstalled = TRUE /\ stored = StoredOAuth

\* The token responses with the lifetime this token endpoint grants.
Granted(responses) == {tokens \in responses : tokens.expiresIn = tokenLifetime}

\* async function getKeytar(): the module, or null when the import fails.
\* keytarModule caches what the first import gave, which is the same on
\* every call, so the cache is not kept as state; `await getKeytar()` and
\* the keytar call that follows it are one step, because nothing another
\* invocation does in between changes what getKeytar returns.
\* (getKeytar_Assumed: a getKeytar that takes the module to be there.)
getKeytar_Assumed == "module"
getKeytar == IF keytarInstalled THEN "module" ELSE "null"

\* The transport hands a new invocation to the first free handler slot.
Free(p) ==
  /\ inv[p].pc = "idle"
  /\ \A q \in Procs : q < p => inv[q].pc # "idle"

\* A step's effect on the invocation that takes it: its next record and
\* the event.
\* The request that an invocation waiting at pc has just sent.
Awaited(pc) ==
  CASE pc \in {"rf_wait", "mrf_wait"} -> <<"refresh">>
    [] pc \in {"jira_wait", "wl_me", "wl_page", "wl_list", "wl_issue"} -> <<"jira">>
    [] pc = "ex_tok" -> <<"token">>
    [] pc \in {"ex_res", "st_res"} -> <<"resources">>
    [] OTHER -> << >>
Goes(r, ev) ==
  [inv |-> [r EXCEPT !.reqs = @ \o Awaited(r.pc)], last |-> [ev EXCEPT !.tool = r.tool]]
\* The handler returns `res`.
Ends(r, ev, res) ==
  [inv |-> Idle,
   last |-> [ev EXCEPT !.tool = r.tool, !.result = res, !.persist = r.persist,
                       !.reqs = r.reqs, !.confirm = r.confirm,
                       !.jiraReqs = IF r.pc = "jira_wait" THEN 1 ELSE 0]]

\* A handler whose body is wrapped in try/catch returns errorToResult(e);
\* _internal_jira_set_auth and jira_clear_auth have no try/catch.
Caught(tool) == tool \notin {"_internal_jira_set_auth", "jira_clear_auth"}
Raise(r, ev, e) == Ends(r, ev, IF Caught(r.tool) THEN errorToResult(e) ELSE Thrown(e))

SetTools == {"_internal_jira_set_auth", "jira_oauth_set_tokens", "jira_oauth_exchange_code"}

Takes(p, o) ==
  /\ inv' = [inv EXCEPT ![p] = o.inv]
  /\ last' = o.last
  /\ cleared' = IF o.last.tool \in SetTools THEN "no"
                ELSE IF o.last.tool # "jira_clear_auth" THEN cleared
                ELSE IF o.inv.pc = "clr_del" /\ cleared # "yes" THEN "clearing"
                ELSE IF o.last.result.kind = "ok" /\ cleared = "clearing" THEN "yes"
                ELSE cleared
  /\ UNCHANGED <<tokenLifetime, input, output>>

(***************************************************************************)
(* setAuth and clearAuth.                                                  *)
(***************************************************************************)
\* setAuth(auth, persist) after `inMemoryAuth = auth`, up to its first
\* await: without persist the call is over.
SetAuthEntry(r, a, persist) ==
  IF persist THEN Goes([r EXCEPT !.auth = a, !.persist = TRUE, !.pc = "set_write"], NoEvent)
  ELSE Ends([r EXCEPT !.auth = a, !.persist = FALSE], NoEvent, Success("credentials loaded"))

\* _internal_jira_set_auth, lines 808-812.
InvokeSetAuth(p) ==
  /\ Free(p) /\ calls < MaxCalls
  /\ calls' = calls + 1
  /\ \E baseUrl \in BaseUrlInputs, persist \in BOOLEAN :
       LET r == [Idle EXCEPT !.tool = "_internal_jira_set_auth",
                             !.persist = persist] IN
       IF normalizeBaseUrlThrows(baseUrl)
         THEN /\ Takes(p, Raise(r, NoEvent, InvalidUrlError))
              /\ UNCHANGED inMemoryAuth
         ELSE LET a == BasicAuthConfig(normalizeBaseUrl(baseUrl), "a@acme.com", "T") IN
              /\ inMemoryAuth' = a
              /\ Takes(p, SetAuthEntry(r, a, persist))
  /\ UNCHANGED <<keytarInstalled, stored, env, now>>

\* setAuth after `inMemoryAuth = auth`: getKeytar, then
\* keytar.setPassword(..., JSON.stringify(auth)) settles, lines 373-377.
SetAuthWrite(p) ==
  /\ inv[p].pc = "set_write"
  /\ \/ /\ getKeytar = "null"
        /\ Takes(p, Raise(inv[p], NoEvent, KeytarUnavailableError))
        /\ UNCHANGED stored
     \/ /\ getKeytar # "null"
        /\ stored' = JSONstringify(inv[p].auth)
        /\ Takes(p, Ends(inv[p], NoEvent, Success("credentials loaded")))
     \/ /\ getKeytar # "null"
        /\ Takes(p, Raise(inv[p], NoEvent, KeytarFailure))
        /\ UNCHANGED stored
  /\ UNCHANGED <<inMemoryAuth, keytarInstalled, env, now, calls>>

\* jira_clear_auth / clearAuth up to `await getKeytar()`, lines 380-382.
InvokeClearAuth(p) ==
  /\ Free(p) /\ calls < MaxCalls
  /\ calls' = calls + 1
  /\ inMemoryAuth' = Null
  /\ Takes(p, Goes([Idle EXCEPT !.tool = "jira_clear_auth", !.pc = "clr_del"],
                   NoEvent))
  /\ UNCHANGED <<keytarInstalled, stored, env, now>>

\* clearAuth after `inMemoryAuth = null`: getKeytar, then
\* keytar.deletePassword settles, lines 382-384.
ClearDelete(p) ==
  /\ inv[p].pc = "clr_del"
  /\ \/ /\ getKeytar = "null"
        /\ Takes(p, Ends(inv[p], NoEvent, Success("credentials cleared")))
        /\ UNCHANGED stored
     \/ /\ getKeytar # "null"
        /\ stored' = NoEntry
        /\ Takes(p, Ends(inv[p], NoEvent, Success("credentials cleared")))
     \/ /\ getKeytar # "null"
        /\ Takes(p, Raise(inv[p], NoEvent, KeytarFailure))
        /\ UNCHANGED stored
  /\ UNCHANGED <<inMemoryAuth, keytarInstalled, env, now, calls>>

(***************************************************************************)
(* Tools that start with `const auth = await getAuthOrThrow()`.  When      *)
(* getAuthOrThrow settles, the handler runs on to its next await in the    *)
(* same step: that stretch reads the local `auth` only.                    *)
(***************************************************************************)
ResolvingTools == {"jira_whoami", "jira_oauth_refresh"}

\* createClient(auth) reads auth.type: lines 389-411.
createClientThrows(a) == ReadThrows(a)

\* Where a tool that calls Jira waits first after createClient:
\* jira_get_user_worklogs asks for /myself when no accountId is given, and
\* for the first page of worklog ids otherwise (lines 4841-4883).
FirstAwait(r) ==
  IF r.tool # "jira_get_user_worklogs" THEN "jira_wait"
  ELSE IF r.loc.account THEN "wl_page" ELSE "wl_me"

\* A handler that builds its client from the slot, not from what
\* getAuthOrThrow returned.
AfterReturn_UsesSlot(r, ev, val) ==
  LET e1 == [ev EXCEPT !.resolved = "returned", !.got = val]
      r1 == [r EXCEPT !.auth = inMemoryAuth, !.sent = Null] IN
  IF createClientThrows(val) THEN Raise(r1, e1, NullReadError)
  ELSE Goes([r1 EXCEPT !.pc = FirstAwait(r)], e1)

\* getAuthOrThrow has returned val: the handler up to its next await.
AfterReturn(r, ev, val) ==
  LET e1 == [ev EXCEPT !.resolved = "returned", !.got = val]
      r1 == [r EXCEPT !.auth = val, !.sent = Null] IN
  IF r.tool # "jira_oauth_refresh"
    THEN IF createClientThrows(val) THEN Raise(r1, e1, NullReadError)
         ELSE Goes([r1 EXCEPT !.pc = FirstAwait(r)], e1)
  ELSE \* jira_oauth_refresh, lines 958-972
       IF ReadThrows(val) THEN Raise(r1, e1, NullReadError)
       ELSE IF val.type # "oauth"
         THEN Ends(r1, e1, Failure("invalid_auth_type", "Current authentication is not OAuth."))
       ELSE IF ~TruthyStr(val.refreshToken)
         THEN Ends(r1, e1, Failure("no_refresh_token", "No refresh token available."))
       ELSE Goes([r1 EXCEPT !.pc = "mrf_wait", !.sent = val], e1)

\* getAuthOrThrow has thrown e: the handler's catch.
AfterThrow(r, ev, e) ==
  Raise(r, [ev EXCEPT !.resolved = "threw", !.rerr = e.message], e)

\* A getAuthOrThrow that keeps in the slot the credential it read from the
\* environment.
InvokeResolving_Caches(p) ==
  /\ Free(p) /\ calls < MaxCalls
  /\ calls' = calls + 1
  /\ \E tool \in ResolvingTools :
       LET g == GetAuthEntry(inMemoryAuth, env, now)
           r == [Idle EXCEPT !.tool = tool]
           ev == [NoEvent EXCEPT !.entry = inMemoryAuth, !.src = g.src] IN
       Takes(p, CASE g.step = "refresh" -> Goes([r EXCEPT !.pc = "rf_wait", !.sent = g.val], NoEvent)
                  [] g.step = "keytar" -> Goes([r EXCEPT !.pc = "kt_get"], NoEvent)
                  [] g.step = "throw" -> AfterThrow(r, ev, g.err)
                  [] OTHER -> AfterReturn(r, ev, g.val))
  /\ inMemoryAuth' = IF last'.resolved = "returned" THEN last'.got ELSE inMemoryAuth
  /\ UNCHANGED <<keytarInstalled, stored, env, now>>

\* The handler is invoked and getAuthOrThrow runs to its first await or to
\* its return: lines 328-333 and 355-364.
InvokeResolving(p) ==
  /\ Free(p) /\ calls < MaxCalls
  /\ calls' = calls + 1
  /\ \E tool \in ResolvingTools :
       LET g == GetAuthEntry(inMemoryAuth, env, now)
           r == [Idle EXCEPT !.tool = tool]
           ev == [NoEvent EXCEPT !.entry = inMemoryAuth, !.src = g.src] IN
       Takes(p, CASE g.step = "refresh" -> Goes([r EXCEPT !.pc = "rf_wait", !.sent = g.val], NoEvent)
                  [] g.step = "keytar" -> Goes([r EXCEPT !.pc = "kt_get"], NoEvent)
                  [] g.step = "throw" -> AfterThrow(r, ev, g.err)
                  [] OTHER -> AfterReturn(r, ev, g.val))
  /\ UNCHANGED <<inMemoryAuth, keytarInstalled, stored, env, now>>

\* A getAuthOrThrow that returns the credential it read before the refresh.
AutoRefreshResponse_Stale(p) ==
  /\ inv[p].pc = "rf_wait"
  /\ LET ev == [NoEvent EXCEPT !.entry = inv[p].sent, !.src = "memory", !.refreshes = 1] IN
     \/ \E tokens \in Granted(RefreshResponses(p)) :
          /\ inMemoryAuth' = IF ApplyRefreshThrows(inMemoryAuth, tokens) THEN inMemoryAuth
                             ELSE ApplyRefresh(inMemoryAuth, tokens, now)
          /\ Takes(p, AfterReturn(inv[p],
                        [ev EXCEPT !.refresh = IF ApplyRefreshThrows(inMemoryAuth, tokens)
                                                 THEN "threw" ELSE "applied",
                                   !.logged = IF ApplyRefreshThrows(inMemoryAuth, tokens)
                                                THEN RefreshFailureLog(NullReadError, inv[p].sent)
                                              ELSE NoLog,
                                   !.tokens = tokens],
                        inv[p].sent))
     \/ \E e \in TokenFailures :
          /\ UNCHANGED inMemoryAuth
          /\ Takes(p, AfterReturn(inv[p], [ev EXCEPT !.refresh = "failed",
                                                     !.logged = RefreshFailureLog(e, inv[p].sent)],
                                   inMemoryAuth))
  /\ UNCHANGED <<keytarInstalled, stored, env, now, calls>>

\* A getAuthOrThrow that writes the refreshed credential to keytar.
AutoRefreshResponse_Persists(p) ==
  /\ inv[p].pc = "rf_wait"
  /\ LET ev == [NoEvent EXCEPT !.entry = inv[p].sent, !.src = "memory", !.refreshes = 1] IN
     \/ \E tokens \in Granted(RefreshResponses(p)) :
          /\ inMemoryAuth' = IF ApplyRefreshThrows(inMemoryAuth, tokens) THEN inMemoryAuth
                             ELSE ApplyRefresh(inMemoryAuth, tokens, now)
          /\ Takes(p, AfterReturn(inv[p],
                        [ev EXCEPT !.refresh = IF ApplyRefreshThrows(inMemoryAuth, tokens)
                                                 THEN "threw" ELSE "applied",
                                   !.logged = IF ApplyRefreshThrows(inMemoryAuth, tokens)
                                                THEN RefreshFailureLog(NullReadError, inv[p].sent)
                                              ELSE NoLog,
                                   !.tokens = tokens],
                        inMemoryAuth'))
     \/ \E e \in TokenFailures :
          /\ UNCHANGED inMemoryAuth
          /\ Takes(p, AfterReturn(inv[p], [ev EXCEPT !.refresh = "failed",
                                                     !.logged = RefreshFailureLog(e, inv[p].sent)],
                                   inMemoryAuth))
  /\ stored' = IF getKeytar # "null" THEN JSONstringify(inMemoryAuth') ELSE stored
  /\ UNCHANGED <<keytarInstalled, env, now, calls>>

\* The refresh request of getAuthOrThrow settles: lines 335-352.
AutoRefreshResponse(p) ==
  /\ inv[p].pc = "rf_wait"
  /\ LET ev == [NoEvent EXCEPT !.entry = inv[p].sent, !.src = "memory", !.refreshes = 1] IN
     \/ \E tokens \in Granted(RefreshResponses(p)) :
          /\ inMemoryAuth' = IF ApplyRefreshThrows(inMemoryAuth, tokens) THEN inMemoryAuth
                             ELSE ApplyRefresh(inMemoryAuth, tokens, now)
          /\ Takes(p, AfterReturn(inv[p],
                        [ev EXCEPT !.refresh = IF ApplyRefreshThrows(inMemoryAuth, tokens)
                                                 THEN "threw" ELSE "applied",
                                   !.logged = IF ApplyRefreshThrows(inMemoryAuth, tokens)
                                                THEN RefreshFailureLog(NullReadError, inv[p].sent)
                                              ELSE NoLog,
                                   !.tokens = tokens],
                        inMemoryAuth'))
     \/ \E e \in TokenFailures :
          /\ UNCHANGED inMemoryAuth
          /\ Takes(p, AfterReturn(inv[p], [ev EXCEPT !.refresh = "failed",
                                                     !.logged = RefreshFailureLog(e, inv[p].sent)],
                                   inMemoryAuth))
  /\ UNCHANGED <<keytarInstalled, stored, env, now, calls>>

\* A getAuthOrThrow that keeps in the slot the credential it read from
\* keytar.
AuthKeytarRead_Caches(p) ==
  /\ inv[p].pc = "kt_get"
  /\ \/ /\ getKeytar = "null"
        /\ Takes(p, AfterThrow(inv[p], [NoEvent EXCEPT !.src = "missing"], MissingAuthError))
     \/ /\ getKeytar # "null"
        /\ Takes(p, IF Truthy(authFromKeytar(stored))
                      THEN AfterReturn(inv[p], [NoEvent EXCEPT !.src = "durable"],
                                       authFromKeytar(stored))
                      ELSE AfterThrow(inv[p], [NoEvent EXCEPT !.src = "missing"],
                                      MissingAuthError))
     \/ /\ getKeytar # "null"
        /\ Takes(p, AfterThrow(inv[p], [NoEvent EXCEPT !.src = "error"], KeytarFailure))
  /\ inMemoryAuth' = IF last'.resolved = "returned" THEN last'.got ELSE inMemoryAuth
  /\ UNCHANGED <<keytarInstalled, stored, env, now, calls>>

\* `await authFromKeytar()`: getKeytar, then keytar.getPassword settles:
\* lines 309-325 and 364-367.
AuthKeytarRead(p) ==
  /\ inv[p].pc = "kt_get"
  /\ \/ /\ getKeytar = "null"
        /\ Takes(p, AfterThrow(inv[p], [NoEvent EXCEPT !.src = "missing"], MissingAuthError))
     \/ /\ getKeytar # "null"
        /\ Takes(p, IF Truthy(authFromKeytar(stored))
                      THEN AfterReturn(inv[p], [NoEvent EXCEPT !.src = "durable"],
                                       authFromKeytar(stored))
                      ELSE AfterThrow(inv[p], [NoEvent EXCEPT !.src = "missing"],
                                      MissingAuthError))
     \/ /\ getKeytar # "null"
        /\ Takes(p, AfterThrow(inv[p], [NoEvent EXCEPT !.src = "error"], KeytarFailure))
  /\ UNCHANGED <<inMemoryAuth, keytarInstalled, stored, env, now, calls>>

\* The invocation has received a response with this status.
Got(r, status) == [r EXCEPT !.reqs = @ \o (IF status = 429 THEN <<"429">> ELSE << >>)]

\* The body jira_complete_sprint posts to /rest/agile/1.0/sprint/{sprintId}:
\* lines 2593-2595.
CompleteSprintBody == [state |-> "closed"]
\* moveIncompleteIssuesTo || "backlog": line 2602.
IncompleteIssuesMovedTo(m) ==
  IF m # NoNum /\ m # 0 THEN [js |-> "number", val |-> m, str |-> Undef]
  ELSE [js |-> "string", val |-> NoNum, str |-> "backlog"]
\* What the Jira request of the invocation carried, and on success what
\* the result reports besides the message.
Posted(r) ==
  IF r.tool = "jira_complete_sprint" THEN [NoEvent EXCEPT !.posted = CompleteSprintBody]
  ELSE NoEvent
Reported(r) ==
  IF r.tool = "jira_complete_sprint"
    THEN [Posted(r) EXCEPT !.movedTo = IncompleteIssuesMovedTo(r.loc.moveIncompleteIssuesTo)]
  ELSE NoEvent

\* The Jira request of jira_whoami, of a delete tool, of a bulk tool or of
\* jira_complete_sprint settles: lines 1095-1099, 2593-2606.
JiraResponse(p) ==
  /\ inv[p].pc = "jira_wait"
  /\ \E status \in JiraStatuses :
       Takes(p, IF status = 200
                  THEN Ends(inv[p], Reported(inv[p]),
                            Success(IF inv[p].tool = "jira_complete_sprint"
                                      THEN "Sprint completed successfully" ELSE "profile"))
                ELSE Raise(Got(inv[p], status), Posted(inv[p]), HttpError(status)))
  /\ UNCHANGED <<inMemoryAuth, keytarInstalled, stored, env, now, calls>>

\* The refresh request of jira_oauth_refresh settles: lines 972-990.
\* setAuth(updatedAuth, false) writes the slot.
ManualRefreshResponse(p) ==
  /\ inv[p].pc = "mrf_wait"
  /\ \/ \E tokens \in Granted(RefreshResponses(p)) :
          /\ inMemoryAuth' = UpdatedAuth(inv[p].auth, tokens, now)
          /\ Takes(p, Ends(inv[p], [NoEvent EXCEPT !.refresh = "manual", !.tokens = tokens,
                                                   !.entry = inv[p].auth],
                           Success("OAuth token refreshed")))
     \/ \E e \in TokenFailures :
          /\ UNCHANGED inMemoryAuth
          /\ Takes(p, Raise(inv[p], [NoEvent EXCEPT !.refresh = "manual_failed"], e))
  /\ UNCHANGED <<keytarInstalled, stored, env, now, calls>>

(***************************************************************************)
(* jira_oauth_set_tokens and jira_oauth_exchange_code.                     *)
(***************************************************************************)
\* jira_oauth_set_tokens up to its first await: lines 910-932.
InvokeSetTokens(p) ==
  /\ Free(p) /\ calls < MaxCalls
  /\ calls' = calls + 1
  /\ \E clientId \in {"cid2"}, refreshToken \in {"rt0"},
        cloudId \in {Undef, "cloud0"}, siteUrl \in SiteUrlInputs, persist \in BOOLEAN :
       LET a == OAuthConfig(clientId, SecretOf(clientId), "at0", refreshToken, cloudId, NoNum)
           r == [Idle EXCEPT !.tool = "jira_oauth_set_tokens",
                             !.persist = persist] IN
       IF ~TruthyStr(cloudId)
         THEN /\ Takes(p, Goes([r EXCEPT !.pc = "st_res", !.auth = a, !.siteUrl = siteUrl],
                               NoEvent))
              /\ UNCHANGED inMemoryAuth
         ELSE /\ siteUrl = NoUrl
              /\ inMemoryAuth' = a
              /\ Takes(p, SetAuthEntry(r, a, persist))
  /\ UNCHANGED <<keytarInstalled, stored, env, now>>

\* getCloudIdFromResources settles in jira_oauth_set_tokens: lines 917-932.
SetTokensResources(p) ==
  /\ inv[p].pc = "st_res"
  /\ \/ \E resources \in ResourceLists :
          IF getCloudIdFromResourcesThrows(resources, inv[p].siteUrl)
            THEN /\ Takes(p, Raise(inv[p], NoEvent,
                                   getCloudIdFromResourcesError(resources, inv[p].siteUrl)))
                 /\ UNCHANGED inMemoryAuth
            ELSE LET a == [inv[p].auth EXCEPT
                             !.cloudId = getCloudIdFromResources(resources, inv[p].siteUrl)] IN
                 /\ inMemoryAuth' = a
                 /\ Takes(p, SetAuthEntry(inv[p], a, inv[p].persist))
     \/ /\ Takes(p, Raise(inv[p], NoEvent, HttpError(401)))
        /\ UNCHANGED inMemoryAuth
  /\ UNCHANGED <<keytarInstalled, stored, env, now, calls>>

\* jira_oauth_exchange_code up to its first await: lines 858-861.
InvokeExchangeCode(p) ==
  /\ Free(p) /\ calls < MaxCalls
  /\ calls' = calls + 1
  /\ \E clientId \in {"cid1"}, siteUrl \in SiteUrlInputs, persist \in BOOLEAN :
       Takes(p, Goes([Idle EXCEPT
                        !.tool = "jira_oauth_exchange_code", !.pc = "ex_tok",
                        !.auth = OAuthConfig(clientId, SecretOf(clientId), Undef, Undef, Undef, NoNum),
                        !.siteUrl = siteUrl, !.persist = persist],
                     NoEvent))
  /\ UNCHANGED <<inMemoryAuth, keytarInstalled, stored, env, now>>

\* A handler that stores the tokens before the cloud id is resolved.
ExchangeTokenResponse_SetsEarly(p) ==
  /\ inv[p].pc = "ex_tok"
  /\ \/ \E tokens \in Granted(ExchangeResponses) :
          Takes(p, Goes([inv[p] EXCEPT
                           !.pc = "ex_res", !.expiresIn = tokens.expiresIn,
                           !.auth = [@ EXCEPT !.accessToken = tokens.accessToken,
                                              !.refreshToken = tokens.refreshToken]],
                        NoEvent))
     \/ \E e \in TokenFailures : Takes(p, Raise(inv[p], NoEvent, e))
  /\ inMemoryAuth' = IF inv'[p].pc = "ex_res" THEN inv'[p].auth ELSE inMemoryAuth
  /\ UNCHANGED <<keytarInstalled, stored, env, now, calls>>

\* exchangeCodeForTokens settles: lines 861-864.
ExchangeTokenResponse(p) ==
  /\ inv[p].pc = "ex_tok"
  /\ \/ \E tokens \in Granted(ExchangeResponses) :
          Takes(p, Goes([inv[p] EXCEPT
                           !.pc = "ex_res", !.expiresIn = tokens.expiresIn,
                           !.auth = [@ EXCEPT !.accessToken = tokens.accessToken,
                                              !.refreshToken = tokens.refreshToken]],
                        NoEvent))
     \/ \E e \in TokenFailures : Takes(p, Raise(inv[p], NoEvent, e))
  /\ UNCHANGED <<inMemoryAuth, keytarInstalled, stored, env, now, calls>>

\* getCloudIdFromResources settles in jira_oauth_exchange_code: 864-876.
ExchangeResources(p) ==
  /\ inv[p].pc = "ex_res"
  /\ \/ \E resources \in ResourceLists :
          IF getCloudIdFromResourcesThrows(resources, inv[p].siteUrl)
            THEN /\ Takes(p, Raise(inv[p], NoEvent,
                                   getCloudIdFromResourcesError(resources, inv[p].siteUrl)))
                 /\ UNCHANGED inMemoryAuth
            ELSE LET a == [inv[p].auth EXCEPT
                             !.cloudId = getCloudIdFromResources(resources, inv[p].siteUrl),
                             !.expiresAt = IF inv[p].expiresIn # 0
                                             THEN now + inv[p].expiresIn * 1000
                                             ELSE NoNum] IN
                 /\ inMemoryAuth' = a
                 /\ Takes(p, SetAuthEntry(inv[p], a, inv[p].persist))
     \/ /\ Takes(p, Raise(inv[p], NoEvent, HttpError(401)))
        /\ UNCHANGED inMemoryAuth
  /\ UNCHANGED <<keytarInstalled, stored, env, now, calls>>

(***************************************************************************)
(* The delete tools.  jira_delete_issue, jira_delete_sprint and            *)
(* jira_delete_filter take confirmDelete and return before anything else   *)
(* when it is false; jira_delete_issue_link and jira_delete_attachment     *)
(* take no such argument.                                                  *)
(***************************************************************************)
ConfirmedDeletes == {"jira_delete_issue", "jira_delete_sprint", "jira_delete_filter"}
DeleteTools == ConfirmedDeletes \cup {"jira_delete_issue_link", "jira_delete_attachment"}

\* A delete tool up to its first await: lines 1767-1778, 2621-2631,
\* 2971-2973, 3284-3286, 3743-3753.
InvokeDelete(p) ==
  /\ Free(p) /\ calls < MaxCalls
  /\ calls' = calls + 1
  /\ \E tool \in DeleteTools :
     \E confirm \in (IF tool \in ConfirmedDeletes THEN BOOLEAN ELSE {FALSE}) :
       LET g == GetAuthEntry(inMemoryAuth, env, now)
           r == [Idle EXCEPT !.tool = tool, !.confirm = confirm]
           ev == [NoEvent EXCEPT !.entry = inMemoryAuth, !.src = g.src] IN
       Takes(p, IF tool \in ConfirmedDeletes /\ ~confirm
                  THEN Ends(r, NoEvent, Failure("confirmation_required", "Deletion not confirmed."))
                ELSE CASE g.step = "refresh" -> Goes([r EXCEPT !.pc = "rf_wait", !.sent = g.val], NoEvent)
                       [] g.step = "keytar" -> Goes([r EXCEPT !.pc = "kt_get"], NoEvent)
                       [] g.step = "throw" -> AfterThrow(r, ev, g.err)
                       [] OTHER -> AfterReturn(r, ev, g.val))
  /\ UNCHANGED <<inMemoryAuth, keytarInstalled, stored, env, now>>

(***************************************************************************)
(* jira_get_user_worklogs: /myself when no accountId is given, the pages   *)
(* of updated worklog ids, the worklog details in batches, and the issue   *)
(* details in batches.                                                     *)
(***************************************************************************)
maxPages == 10
WorklogBatch == 1000
IssueBatch == 50
\* What one page of /worklog/updated adds to allWorklogIds, and what one
\* batch of /worklog/list adds to the distinct issues of the user's worklogs.
PageSizes == {0, 600}
IssueCounts == {0, 30}

\* The handler up to its first await: lines 4838-4840.
InvokeWorklogs(p) ==
  /\ Free(p) /\ calls < MaxCalls
  /\ calls' = calls + 1
  /\ \E account \in BOOLEAN, details \in BOOLEAN :
       LET g == GetAuthEntry(inMemoryAuth, env, now)
           r == [Idle EXCEPT !.tool = "jira_get_user_worklogs",
                             !.loc = [NoLocals EXCEPT !.account = account, !.details = details]]
           ev == [NoEvent EXCEPT !.entry = inMemoryAuth, !.src = g.src] IN
       Takes(p, CASE g.step = "refresh" -> Goes([r EXCEPT !.pc = "rf_wait", !.sent = g.val], NoEvent)
                  [] g.step = "keytar" -> Goes([r EXCEPT !.pc = "kt_get"], NoEvent)
                  [] g.step = "throw" -> AfterThrow(r, ev, g.err)
                  [] OTHER -> AfterReturn(r, ev, g.val))
  /\ UNCHANGED <<inMemoryAuth, keytarInstalled, stored, env, now>>

\* GET /myself settles: lines 4845-4849, then the first page request.
WorklogsMe(p) ==
  /\ inv[p].pc = "wl_me"
  /\ \E status \in JiraStatuses :
       Takes(p, IF status = 200 THEN Goes([inv[p] EXCEPT !.pc = "wl_page"], NoEvent)
                ELSE Raise(Got(inv[p], status), NoEvent, HttpError(status)))
  /\ UNCHANGED <<inMemoryAuth, keytarInstalled, stored, env, now, calls>>

\* The page loop is left: lines 4901-4924.
AfterPages(r) ==
  IF r.loc.ids = 0 THEN Ends(r, NoEvent, Success("worklogs"))
  ELSE Goes([r EXCEPT !.pc = "wl_list"], NoEvent)

\* A page loop that goes on for as long as the server names a next page.
WorklogsPage_NoLimit(p) ==
  /\ inv[p].pc = "wl_page"
  /\ \E status \in JiraStatuses :
       IF status # 200
         THEN Takes(p, Raise(Got(inv[p], status), NoEvent, HttpError(status)))
       ELSE \E n \in PageSizes, lastPage \in BOOLEAN, nextPage \in BOOLEAN :
              LET r == [inv[p] EXCEPT !.loc.ids = @ + n] IN
              IF lastPage THEN Takes(p, AfterPages(r))
              ELSE LET r1 == [r EXCEPT !.loc.pageCount = @ + 1] IN
                   Takes(p, IF nextPage
                              THEN Goes([r1 EXCEPT !.pc = "wl_page"], NoEvent)
                            ELSE AfterPages(r1))
  /\ UNCHANGED <<inMemoryAuth, keytarInstalled, stored, env, now, calls>>

\* A page of /worklog/updated settles: lines 4882-4899.
WorklogsPage(p) ==
  /\ inv[p].pc = "wl_page"
  /\ \E status \in JiraStatuses :
       IF status # 200
         THEN Takes(p, Raise(Got(inv[p], status), NoEvent, HttpError(status)))
       ELSE \E n \in PageSizes, lastPage \in BOOLEAN, nextPage \in BOOLEAN :
              LET r == [inv[p] EXCEPT !.loc.ids = @ + n] IN
              IF lastPage THEN Takes(p, AfterPages(r))
              ELSE LET r1 == [r EXCEPT !.loc.pageCount = @ + 1] IN
                   Takes(p, IF nextPage /\ r1.loc.pageCount < maxPages
                              THEN Goes([r1 EXCEPT !.pc = "wl_page"], NoEvent)
                            ELSE AfterPages(r1))
  /\ UNCHANGED <<inMemoryAuth, keytarInstalled, stored, env, now, calls>>

\* The details loop is left, or entered: lines 4931-4958, and the result.
AfterList(r) ==
  IF r.loc.details /\ r.loc.issues > 0
    THEN Goes([r EXCEPT !.pc = "wl_issue"], NoEvent)
  ELSE Ends(r, NoEvent, Success("worklogs"))

\* A batch of /worklog/list settles: lines 4919-4926.
WorklogsList(p) ==
  /\ inv[p].pc = "wl_list"
  /\ \E status \in JiraStatuses :
       IF status # 200
         THEN Takes(p, Raise(Got(inv[p], status), NoEvent, HttpError(status)))
       ELSE \E u \in IssueCounts :
              LET r == [inv[p] EXCEPT !.loc.issues = @ + u, !.loc.i = @ + WorklogBatch] IN
              Takes(p, IF r.loc.i < r.loc.ids THEN Goes([r EXCEPT !.pc = "wl_list"], NoEvent)
                       ELSE AfterList(r))
  /\ UNCHANGED <<inMemoryAuth, keytarInstalled, stored, env, now, calls>>

\* A batch of the issue search settles; an error of the request is caught
\* and the loop goes on: lines 4936-4957.
WorklogsIssues(p) ==
  /\ inv[p].pc = "wl_issue"
  /\ \E status \in JiraStatuses :
       LET r == [Got(inv[p], status) EXCEPT !.loc.j = @ + IssueBatch] IN
       Takes(p, IF r.loc.j < r.loc.issues THEN Goes([r EXCEPT !.pc = "wl_issue"], NoEvent)
                ELSE Ends(r, NoEvent, Success("worklogs")))
  /\ UNCHANGED <<inMemoryAuth, keytarInstalled, stored, env, now, calls>>

(***************************************************************************)
(* The bulk tools: jira_bulk_edit_issues, jira_bulk_watch_issues and       *)
(* jira_bulk_unwatch_issues post the issue keys they are given.            *)
(***************************************************************************)
BulkTools == {"jira_bulk_edit_issues", "jira_bulk_watch_issues", "jira_bulk_unwatch_issues"}
\* The limit the security policy states for a bulk operation.
BulkLimit == 1000
\* issueIdsOrKeys.length: the schema asks for one key at least.
BulkSizes == {1, BulkLimit, BulkLimit + 1}

\* A bulk tool up to its first await: lines 3891-3899, 3931-3938, 3969-3976.
InvokeBulk(p) ==
  /\ Free(p) /\ calls < MaxCalls
  /\ calls' = calls + 1
  /\ \E tool \in BulkTools, n \in BulkSizes :
       LET g == GetAuthEntry(inMemoryAuth, env, now)
           r == [Idle EXCEPT !.tool = tool, !.loc = [NoLocals EXCEPT !.ids = n]]
           ev == [NoEvent EXCEPT !.entry = inMemoryAuth, !.src = g.src] IN
       Takes(p, CASE g.step = "refresh" -> Goes([r EXCEPT !.pc = "rf_wait", !.sent = g.val], NoEvent)
                  [] g.step = "keytar" -> Goes([r EXCEPT !.pc = "kt_get"], NoEvent)
                  [] g.step = "throw" -> AfterThrow(r, ev, g.err)
                  [] OTHER -> AfterReturn(r, ev, g.val))
  /\ UNCHANGED <<inMemoryAuth, keytarInstalled, stored, env, now>>

(***************************************************************************)
(* jira_complete_sprint: closes the sprint; moveIncompleteIssuesTo is the  *)
(* sprint the incomplete issues are to go to, the backlog when omitted.    *)
(***************************************************************************)
\* The sprint ids given as moveIncompleteIssuesTo; NoNum when omitted.
TargetSprints == {NoNum, 8}

\* jira_complete_sprint up to its first await: lines 2587-2595.
InvokeCompleteSprint(p) ==
  /\ Free(p) /\ calls < MaxCalls
  /\ calls' = calls + 1
  /\ \E m \in TargetSprints :
       LET g == GetAuthEntry(inMemoryAuth, env, now)
           r == [Idle EXCEPT !.tool = "jira_complete_sprint",
                             !.loc = [NoLocals EXCEPT !.moveIncompleteIssuesTo = m]]
           ev == [NoEvent EXCEPT !.entry = inMemoryAuth, !.src = g.src] IN
       Takes(p, CASE g.step = "refresh" -> Goes([r EXCEPT !.pc = "rf_wait", !.sent = g.val], NoEvent)
                  [] g.step = "keytar" -> Goes([r EXCEPT !.pc = "kt_get"], NoEvent)
                  [] g.step = "throw" -> AfterThrow(r, ev, g.err)
                  [] OTHER -> AfterReturn(r, ev, g.val))
  /\ UNCHANGED <<inMemoryAuth, keytarInstalled, stored, env, now>>

(***************************************************************************)
(* The clock.                                                              *)
(***************************************************************************)
Tick ==
  /\ now < ClockStart + MaxTicks * MinuteMs
  /\ now' = now + MinuteMs
  /\ last' = NoEvent
  /\ UNCHANGED <<inMemoryAuth, keytarInstalled, stored, env, calls, inv, cleared,
                 tokenLifetime, input, output>>

Next ==
  \/ Tick
  \/ \E p \in Procs :
       \/ InvokeSetAuth(p) \/ SetAuthWrite(p)
       \/ InvokeClearAuth(p) \/ ClearDelete(p)
       \/ InvokeResolving(p) \/ AutoRefreshResponse(p)
       \/ AuthKeytarRead(p)
       \/ JiraResponse(p) \/ ManualRefreshResponse(p)
       \/ InvokeSetTokens(p) \/ SetTokensResources(p)
       \/ InvokeExchangeCode(p) \/ ExchangeTokenResponse(p) \/ ExchangeResources(p)

\* Tool invocations interleave at their awaits.
Spec == Init /\ [][Next]_vars

\* One tool invocation at a time, on every host.
Solo(p) ==
  \/ InvokeSetAuth(p) \/ SetAuthWrite(p)
  \/ InvokeClearAuth(p) \/ ClearDelete(p)
  \/ InvokeResolving(p) \/ AutoRefreshResponse(p)
  \/ AuthKeytarRead(p)
  \/ JiraResponse(p) \/ ManualRefreshResponse(p)
  \/ InvokeSetTokens(p) \/ SetTokensResources(p)
  \/ InvokeExchangeCode(p) \/ ExchangeTokenResponse(p) \/ ExchangeResources(p)
NextSolo == Tick \/ Solo(1)
SpecSolo == InitAnyHost /\ [][NextSolo]_vars

\* The tools that call Jira, one invocation at a time, on hosts whose
\* environment holds a credential, whose keychain holds one, or that have
\* none.
InitTools ==
  /\ Starts
  /\ \/ /\ keytarInstalled = FALSE /\ stored = NoEntry
        /\ env \in {UnsetEnv, WithBasicEnv(UnsetEnv, GoodUrl), WithOAuthEnv(UnsetEnv, "cloudE")}
     \/ /\ keytarInstalled = TRUE /\ stored = StoredOAuth
        /\ env = UnsetEnv
  /\ tokenLifetime = 360
NextTools ==
  \/ Tick
  \/ AuthKeytarRead(1)
  \/ InvokeDelete(1) \/ JiraResponse(1)
  \/ InvokeBulk(1) \/ InvokeCompleteSprint(1)
  \/ InvokeWorklogs(1) \/ WorklogsMe(1) \/ WorklogsPage(1) \/ WorklogsList(1)
  \/ WorklogsIssues(1)
SpecTools == InitTools /\ [][NextTools]_vars

(***************************************************************************)
(* The pure functions on their own: errorToResult on every error a handler *)
(* may catch, getCloudIdFromResources on every list of sites and site url. *)
(***************************************************************************)
\* The statuses axios rejects a response with.
FailStatuses == 300..599
\* auth: the type of the credential the failed invocation had resolved.
ErrorInputs ==
  [fn : {"errorToResult"}, auth : {"basic", "oauth"},
   e : {HttpError(st) : st \in FailStatuses \cup {0}}
       \cup {InvalidUrlError, NullReadError, Err("NonError", Undef, 0)}]
  \cup [fn : {"errorToResult"}, auth : {"none"}, e : {MissingAuthError}]

\* A second site under the url of SiteX, written with its trailing slash.
SiteX2 == [id |-> "cloudX2", url |-> <<"https://x.atlassian.net", "/">>]
Sites == {SiteX, SiteY, SiteX2}
SiteLists == { << >> } \cup {<<a>> : a \in Sites} \cup {<<a, b>> : a \in Sites, b \in Sites}
SiteUrls == {NoUrl, BadUrl, <<"https://x.atlassian.net">>, GoodUrl,
             <<"https://y.atlassian.net">>, <<"https://x.atlassian.net", "/", "/">>}
CloudIdInputs == [fn : {"getCloudIdFromResources"}, resources : SiteLists, siteUrl : SiteUrls]

Untouched == <<inMemoryAuth, keytarInstalled, stored, env, now, calls, inv, last,
               cleared, tokenLifetime>>

ApplyErrorToResult ==
  /\ \E i \in ErrorInputs :
       /\ input' = i
       /\ output' = [threw |-> FALSE, val |-> errorToResult(i.e)]
  /\ UNCHANGED Untouched

ApplyGetCloudId ==
  /\ \E i \in CloudIdInputs :
       /\ input' = i
       /\ output' = IF getCloudIdFromResourcesThrows(i.resources, i.siteUrl)
                      THEN [threw |-> TRUE,
                            val |-> getCloudIdFromResourcesError(i.resources, i.siteUrl)]
                    ELSE [threw |-> FALSE,
                          val |-> getCloudIdFromResources(i.resources, i.siteUrl)]
  /\ UNCHANGED Untouched

InitPure ==
  /\ Starts
  /\ keytarInstalled = FALSE /\ stored = NoEntry /\ env = UnsetEnv
  /\ tokenLifetime = 360
NextPure == ApplyErrorToResult \/ ApplyGetCloudId
SpecPure == InitPure /\ [][NextPure]_vars

(***************************************************************************)
(* normalizeBaseUrl on its own, next to _internal_jira_set_auth, the tool  *)
(* that applies it to the caller's baseUrl.                                *)
(***************************************************************************)
FileUrl == <<"file://", "/", "t", "/">>
UrlInputs ==
  BaseUrlInputs \cup {<<"https://x.atlassian.net", "/", "/">>, <<"https://y.atlassian.net">>,
                      FileUrl, <<"file://">>, << >>}
MaxSlashes == 2
RECURSIVE Slashes(_)
Slashes(k) == IF k = 0 THEN << >> ELSE <<"/">> \o Slashes(k - 1)

ApplyNormalize ==
  /\ \E url \in UrlInputs :
       /\ input' = [fn |-> "normalizeBaseUrl", url |-> url]
       /\ output' = IF normalizeBaseUrlThrows(url)
                      THEN [threw |-> TRUE, val |-> InvalidUrlError]
                    ELSE [threw |-> FALSE, val |-> normalizeBaseUrl(url)]
  /\ UNCHANGED Untouched

InitUrl ==
  /\ Starts
  /\ env = UnsetEnv /\ tokenLifetime = 360
  /\ \/ keytarInstalled = FALSE /\ stored = NoEntry
     \/ keytarInstalled = TRUE /\ stored \in {NoEntry, StoredOAuth}
NextUrl == ApplyNormalize \/ InvokeSetAuth(1) \/ SetAuthWrite(1)
SpecUrl == InitUrl /\ [][NextUrl]_vars

\* jira_get_user_worklogs on its own, on a host whose environment holds an
\* OAuth credential; every request the tool awaits is answered.
InitWorklogs ==
  /\ Starts
  /\ keytarInstalled = FALSE /\ stored = NoEntry
  /\ env = WithOAuthEnv(UnsetEnv, "cloudE")
  /\ tokenLifetime = 360
NextWorklogs ==
  \/ InvokeWorklogs(1) \/ WorklogsMe(1) \/ WorklogsPage(1) \/ WorklogsList(1)
  \/ WorklogsIssues(1)
SpecWorklogs ==
  /\ InitWorklogs /\ [][NextWorklogs]_vars
  /\ WF_vars(WorklogsMe(1)) /\ WF_vars(WorklogsPage(1))
  /\ WF_vars(WorklogsList(1)) /\ WF_vars(WorklogsIssues(1))

(***************************************************************************)
(* Properties.                                                             *)
(***************************************************************************)
\* Which sources hold a credential, read off the host directly.
HasOAuthEnv ==
  /\ env.JIRA_OAUTH_CLIENT_ID # Undef /\ env.JIRA_OAUTH_CLIENT_SECRET # Undef
  /\ env.JIRA_OAUTH_ACCESS_TOKEN # Undef /\ env.JIRA_CLOUD_ID # Undef
HasBasicEnv ==
  env.JIRA_BASE_URL # NoUrl /\ env.JIRA_EMAIL # Undef /\ env.JIRA_API_TOKEN # Undef
HasDurable ==
  /\ keytarInstalled /\ stored.present /\ stored.wf
  /\ stored.val.js = "object" /\ stored.val.type \in {"basic", "oauth"}

\* C1: getAuthOrThrow returns the credential of the first source that holds
\* one, in the order in-memory slot, OAuth environment variables, Basic
\* environment variables, durable entry; it throws MISSING_AUTH only when
\* all four are absent.  (A Basic environment whose URL does not parse and
\* a keytar read that fails are neither present nor absent.)
C1_SourcePriority ==
  last.resolved # "none" =>
    /\ Truthy(last.entry) =>
         last.resolved = "returned" /\ last.got = inMemoryAuth /\ last.got.js = "object"
    /\ ~Truthy(last.entry) /\ HasOAuthEnv =>
         /\ last.resolved = "returned"
         /\ last.got = OAuthConfig(env.JIRA_OAUTH_CLIENT_ID, env.JIRA_OAUTH_CLIENT_SECRET,
                                   env.JIRA_OAUTH_ACCESS_TOKEN, env.JIRA_OAUTH_REFRESH_TOKEN,
                                   env.JIRA_CLOUD_ID, NoNum)
    /\ ~Truthy(last.entry) /\ ~HasOAuthEnv /\ HasBasicEnv /\ UrlParses(env.JIRA_BASE_URL) =>
         /\ last.resolved = "returned"
         /\ last.got.type = "basic"
         /\ last.got.email = env.JIRA_EMAIL /\ last.got.apiToken = env.JIRA_API_TOKEN
         /\ last.got.baseUrl = normalizeBaseUrl(env.JIRA_BASE_URL)
    /\ ~Truthy(last.entry) /\ ~HasOAuthEnv /\ ~HasBasicEnv /\ HasDurable /\ last.src # "error" =>
         /\ last.resolved = "returned"
         /\ last.got.type = stored.val.type
         /\ last.got.accessToken = stored.val.accessToken
         /\ last.got.apiToken = stored.val.apiToken
    /\ last.rerr = MissingAuthError.message =>
         ~Truthy(last.entry) /\ ~HasOAuthEnv /\ ~HasBasicEnv /\ ~HasDurable

\* C1 happens: with the slot empty and no OAuth variables, the Basic
\* credential of the environment is returned although a durable credential
\* exists.
C1_Witness ==
  /\ last.resolved = "returned" /\ ~Truthy(last.entry)
  /\ HasBasicEnv /\ HasDurable
  /\ last.got.type = "basic" /\ last.got.email = env.JIRA_EMAIL

\* getAuthOrThrow settled for an in-memory OAuth credential with an expiry.
ResolvedOAuthWithExpiry ==
  last.resolved # "none" /\ last.entry.type = "oauth" /\ TruthyNum(last.entry.expiresAt)

\* C2 as stated: for an in-memory OAuth credential with an expiry,
\* getAuthOrThrow sends no refresh request when the expiry is more than five
\* minutes away, and exactly one when it is five minutes away or less.
C2_AsStated ==
  ResolvedOAuthWithExpiry =>
    last.refreshes = IF last.entry.expiresAt - now > RefreshWindowMs THEN 0 ELSE 1

\* C2 amended: the same, for a credential that carries a refresh token;
\* without a refresh token no refresh request is sent at any distance from
\* the expiry.
C2_RefreshWindow ==
  ResolvedOAuthWithExpiry =>
    last.refreshes = IF \/ last.entry.expiresAt - now > RefreshWindowMs
                        \/ last.entry.refreshToken = Undef
                       THEN 0 ELSE 1

\* C2 happens: a refresh was awaited for a token with exactly five minutes
\* left.
C2_Witness ==
  /\ ResolvedOAuthWithExpiry /\ last.resolved = "returned"
  /\ last.refreshes = 1
  /\ last.entry.expiresAt - now = RefreshWindowMs

\* C3: when the refresh request sent inside getAuthOrThrow fails,
\* getAuthOrThrow does not throw: it returns the credential held before the
\* attempt, tokens and expiry unchanged, and the slot is unchanged.
C3_RefreshFailureTolerated ==
  last.refresh = "failed" =>
    /\ last.resolved = "returned"
    /\ last.got = last.entry
    /\ inMemoryAuth = last.entry

\* C4: in every execution, a successful refresh of the in-memory OAuth
\* credential changes only its access token, refresh token and expiry:
\* type, client ID, client secret and cloud ID are the same after the step
\* that stores the response as before it, and the refresh token is kept
\* when the response carries none.
C4_RefreshKeepsIdentity ==
  [][ (last'.refresh \in {"applied", "manual"} /\ inMemoryAuth.type = "oauth") =>
        /\ inMemoryAuth'.type = inMemoryAuth.type
        /\ inMemoryAuth'.clientId = inMemoryAuth.clientId
        /\ inMemoryAuth'.clientSecret = inMemoryAuth.clientSecret
        /\ inMemoryAuth'.cloudId = inMemoryAuth.cloudId
        /\ last'.tokens.refreshToken = Undef =>
             inMemoryAuth'.refreshToken = inMemoryAuth.refreshToken ]_vars

\* A credential a client can be built from.
UsableCredential(a) ==
  /\ a.js = "object"
  /\ \/ a.type = "basic" /\ a.baseUrl # NoUrl /\ a.email # Undef /\ a.apiToken # Undef
     \/ /\ a.type = "oauth"
        /\ a.clientId # Undef /\ a.clientSecret # Undef
        /\ a.accessToken # Undef /\ a.cloudId # Undef

\* C5: under any interleaving of set, clear and refresh, what getAuthOrThrow
\* returns is a usable credential, never null and never partly populated.
C5_ReturnsUsable ==
  last.resolved = "returned" => UsableCredential(last.got)

\* C6: with no credential in the environment and keytar available, once
\* clearAuth has completed, the slot and the durable entry are both empty
\* until a set tool runs, also when a refresh that started before the
\* clear finishes after it, and a getAuthOrThrow that sends no refresh and
\* reads keytar without failure throws MISSING_AUTH.
C6_ClearedStaysEmpty ==
  (cleared = "yes" /\ keytarInstalled /\ ~HasOAuthEnv /\ ~HasBasicEnv) =>
    /\ inMemoryAuth = Null
    /\ ~stored.present
    /\ (last.resolved # "none" /\ last.refreshes = 0 /\ last.src # "error") =>
         last.rerr = MissingAuthError.message

\* C7: a successful refresh response, when it is stored, puts its own
\* tokens in the slot whatever an overlapping refresh stored before (the
\* access token and expiry of the response, and its refresh token when it
\* carries one), and a failed refresh leaves the slot as it is: after two
\* overlapping refreshes the slot holds the tokens of the response stored
\* last.
C7_LastRefreshWins ==
  [][ /\ last'.refresh \in {"applied", "manual"} =>
           /\ inMemoryAuth'.accessToken = last'.tokens.accessToken
           /\ inMemoryAuth'.expiresAt = now' + last'.tokens.expiresIn * 1000
           /\ last'.tokens.refreshToken # Undef =>
                inMemoryAuth'.refreshToken = last'.tokens.refreshToken
      /\ last'.refresh \in {"failed", "manual_failed"} => inMemoryAuth' = inMemoryAuth ]_vars

\* C7 happens: two refreshes overlapped and both were stored; the slot has
\* the access token of the response stored last (slot 1's) and the refresh
\* token that the other response brought.
C7_Witness ==
  /\ last.refresh = "applied" /\ last.tokens.accessToken = "atR1"
  /\ last.entry.accessToken = "atX"
  /\ inMemoryAuth.accessToken = "atR1" /\ inMemoryAuth.refreshToken = "rtR2"

\* C8: the slot is always empty, or a complete Basic credential, or a
\* complete OAuth credential, never a mix of fields from two credentials.
CompleteBasic(a) ==
  /\ a.js = "object" /\ a.type = "basic"
  /\ a.baseUrl # NoUrl /\ a.email # Undef /\ a.apiToken # Undef
  /\ a.clientId = Undef /\ a.clientSecret = Undef /\ a.accessToken = Undef
  /\ a.refreshToken = Undef /\ a.cloudId = Undef /\ a.expiresAt = NoNum
CompleteOAuth(a) ==
  /\ a.js = "object" /\ a.type = "oauth"
  /\ a.clientId # Undef /\ a.clientSecret # Undef
  /\ a.accessToken # Undef /\ a.cloudId # Undef
  /\ a.baseUrl = NoUrl /\ a.email = Undef /\ a.apiToken = Undef
C8_SlotWellFormed ==
  inMemoryAuth = Null \/ CompleteBasic(inMemoryAuth) \/ CompleteOAuth(inMemoryAuth)

\* C9: a set that asks for persistence on a host without keytar puts the
\* new credential in the slot, fails with the error "Keytar is not
\* available to persist credentials.", which reaches the caller, leaves the
\* slot as it is when it fails, and nothing durable is ever written on such
\* a host.
C9_PersistUnavailable ==
  /\ [](~keytarInstalled => ~stored.present)
  /\ [][ \A p \in Procs :
           /\ (inv[p].pc # "set_write" /\ inv'[p].pc = "set_write") =>
                inMemoryAuth' = inv'[p].auth
           /\ (~keytarInstalled /\ inv[p].pc = "set_write" /\ inv'[p].pc # "set_write") =>
                /\ last'.result.kind \in {"error", "thrown"}
                /\ last'.result.message = KeytarUnavailableError.message
                /\ inMemoryAuth' = inMemoryAuth
                /\ stored' = stored ]_vars

\* C9 happens: a set with persist has failed on a host without keytar and
\* the credential it set is in the slot.
C9_Witness ==
  /\ ~keytarInstalled /\ last.persist /\ last.tool \in SetTools
  /\ last.result.message = KeytarUnavailableError.message
  /\ Truthy(inMemoryAuth) /\ ~stored.present

\* C10: every tool invocation ends by returning a payload; no error leaves
\* a handler as an exception.
C10_NeverThrows == last.result.kind # "thrown"

\* C11: a getAuthOrThrow that finds the slot empty leaves it empty: the
\* credential of the environment or of keytar is returned and not stored,
\* so the next call reads the environment and keytar again.
C11_ResolveDoesNotCache ==
  (last.resolved # "none" /\ ~Truthy(last.entry)) => inMemoryAuth = Null

\* C11 happens: a credential read from keytar was returned and the slot is
\* empty.
C11_Witness ==
  /\ last.resolved = "returned" /\ ~Truthy(last.entry)
  /\ last.src = "durable" /\ last.got.type = "oauth"
  /\ inMemoryAuth = Null

\* C12: when the durable entry is not a serialized Basic or OAuth
\* credential (text that does not parse, or data of another shape),
\* authFromKeytar gives null, so a getAuthOrThrow that gets as far as keytar
\* throws MISSING_AUTH and never returns such data as a credential.
C12_JunkIsAbsent ==
  (last.resolved # "none" /\ last.src \in {"durable", "missing"} /\ ~HasDurable) =>
    last.rerr = MissingAuthError.message

\* C13: a delete tool (issue, sprint, filter, issue link, attachment)
\* invoked without confirmation (flag false or not given) returns
\* confirmation_required and has sent no network request.
C13_ConfirmationGating ==
  (last.tool \in DeleteTools /\ last.result.kind # "none" /\ ~last.confirm) =>
    last.result.error = "confirmation_required" /\ last.reqs = << >>

\* C16: once a Jira request of an invocation has failed with HTTP 429, the
\* invocation sends no further Jira request and returns rate_limited.
NoRequestAfter429(reqs) ==
  \A k \in 1..Len(reqs) : reqs[k] = "429" => k = Len(reqs)
C16_NoRetryAfter429 ==
  /\ \A p \in Procs : NoRequestAfter429(inv[p].reqs)
  /\ (\E k \in 1..Len(last.reqs) : last.reqs[k] = "429") =>
       last.result.error = "rate_limited" /\ NoRequestAfter429(last.reqs)

\* C14 as stated: 401, 403, 404, 429 and every status from 500 up map to
\* unauthorized, forbidden, not_found, rate_limited and server_error, and a
\* failure that is not an HTTP error maps to unknown.
Mapped == input.fn = "errorToResult" /\ input.e.message # "MISSING_AUTH"
StatusMapping ==
  LET st == input.e.status
      k == output.val.error IN
  (input.e.cls = "AxiosError" /\ st # 0) =>
    /\ st = 401 => k = "unauthorized"
    /\ st = 403 => k = "forbidden"
    /\ st = 404 => k = "not_found"
    /\ st = 429 => k = "rate_limited"
    /\ st >= 500 => k = "server_error"
C14_AsStated ==
  Mapped =>
    /\ StatusMapping
    /\ ~(input.e.cls = "AxiosError" /\ input.e.status # 0) => output.val.error = "unknown"
\* C14 amended: the same mapping of the statuses; a failure that is not an
\* axios error maps to unknown, and an axios error without a response, or
\* with any other status, maps to jira_error.
C14_FailureMapping ==
  Mapped =>
    /\ StatusMapping
    /\ input.e.cls # "AxiosError" => output.val.error = "unknown"
    /\ (input.e.cls = "AxiosError" /\ input.e.status \notin {401, 403, 404, 429}
          /\ input.e.status < 500) => output.val.error = "jira_error"
C14_Witness ==
  /\ input.fn = "errorToResult" /\ input.e.cls = "AxiosError" /\ input.e.status = 503
  /\ output.val.error = "server_error"

\* C15 as stated: the error kind returned when no credential source resolved
\* differs from the kind returned for a 401, and the guidance returned for a
\* 401 differs between an OAuth and a Basic credential (two applications
\* of errorToResult, one after the other).
BothMapped == input.fn = "errorToResult" /\ input'.fn = "errorToResult"
MissingThen401 ==
  BothMapped /\ input.e = MissingAuthError /\ input'.e = HttpError(401)
Two401 ==
  /\ BothMapped /\ input.e = HttpError(401) /\ input'.e = HttpError(401)
  /\ input.auth = "oauth" /\ input'.auth = "basic"
CloudIdApplied == input.fn = "getCloudIdFromResources"
UrlsOf(resources) == [k \in 1..Len(resources) |-> resources[k].url]
SiteMatches(k) ==
  /\ ~normalizeBaseUrlThrows(input.siteUrl)
  /\ normalizeBaseUrl(input.resources[k].url) = normalizeBaseUrl(input.siteUrl)
SomeSiteMatches == \E k \in 1..Len(input.resources) : SiteMatches(k)
NamesTheSites ==
  /\ output.threw /\ "sites" \in DOMAIN output.val
  /\ output.val.sites = UrlsOf(input.resources)
ScenarioB ==
  /\ last.refresh = "applied" /\ last.resolved = "returned"
  /\ last.tokens.accessToken # last.entry.accessToken
  /\ last.entry.type = "oauth" /\ TruthyStr(last.entry.refreshToken)
  /\ last.entry.expiresAt - now = 2 * MinuteMs
OneRefreshThenJira ==
  \A p \in Procs : inv[p].tool = last.tool =>
    /\ inv[p].reqs = <<"refresh", "jira">>
    /\ inMemoryAuth.accessToken # last.entry.accessToken
    /\ inv[p].auth.accessToken = last.tokens.accessToken
    /\ inv[p].auth.accessToken = inMemoryAuth.accessToken
C17_AsStated == ScenarioB => OneRefreshThenJira
\* C17 amended: the same for every tool that calls Jira, when the token
\* endpoint answers the refresh with a new token; jira_oauth_refresh sends a
\* second refresh request after the first and no Jira request.
C17_ScenarioB ==
  ScenarioB =>
    IF last.tool # "jira_oauth_refresh" THEN OneRefreshThenJira
    ELSE \A p \in Procs : inv[p].tool = last.tool =>
           inv[p].reqs = <<"refresh", "refresh">>
C17_Witness ==
  /\ ScenarioB /\ last.tool = "jira_whoami"
  /\ inv[1].pc = "jira_wait" /\ inv[1].reqs = <<"refresh", "jira">>
  /\ inv[1].auth.accessToken = "atR1" /\ last.entry.accessToken = "atX"

\* C18 as stated: after a refresh that succeeded, for every lifetime the
\* token endpoint granted, the expiry in the slot is more than 5 minutes
\* ahead and a getAuthOrThrow entered at the same instant sends no refresh.
JustRefreshed == last.refresh = "applied" /\ last.resolved = "returned"
BackToFresh ==
  /\ inMemoryAuth.expiresAt - now > RefreshWindowMs
  /\ GetAuthEntry(inMemoryAuth, env, now).step # "refresh"
C18_AsStated == JustRefreshed => BackToFresh
\* C18 amended: the credential is back to Fresh exactly when the lifetime
\* granted is longer than the 5 minutes of the refresh window; with a
\* shorter one it is still NearExpiry and the next getAuthOrThrow
\* refreshes again.
C18_FreshWhenLongLived ==
  JustRefreshed =>
    IF last.tokens.expiresIn * 1000 > RefreshWindowMs THEN BackToFresh
    ELSE /\ inMemoryAuth.expiresAt - now <= RefreshWindowMs
         /\ GetAuthEntry(inMemoryAuth, env, now).step = "refresh"
C18_Witness ==
  /\ JustRefreshed /\ last.tokens.expiresIn = 360
  /\ inMemoryAuth.expiresAt = now + 360 * 1000
  /\ GetAuthEntry(inMemoryAuth, env, now).step # "refresh"

Normalized == input'.fn = "normalizeBaseUrl"
SlashesIgnored ==
  \A k \in 1..MaxSlashes :
    LET slashed == input'.url \o Slashes(k) IN
    /\ normalizeBaseUrlThrows(slashed) = output'.threw
    /\ ~output'.threw => normalizeBaseUrl(slashed) = output'.val
Idempotent ==
  ~output'.threw =>
    ~normalizeBaseUrlThrows(output'.val) /\ normalizeBaseUrl(output'.val) = output'.val
MalformedSetFails ==
  (last'.tool = "_internal_jira_set_auth" /\ last'.result.message = InvalidUrlError.message) =>
    /\ last'.result.kind = "thrown" /\ last'.reqs = << >>
    /\ inMemoryAuth' = inMemoryAuth /\ stored' = stored
RECURSIVE JiraCount(_)
JiraCount(reqs) ==
  IF reqs = << >> THEN 0
  ELSE (IF Head(reqs) = "jira" THEN 1 ELSE 0) + JiraCount(Tail(reqs))
C22_ResolveBeforeJira ==
  [][ /\ \A p \in Procs :
           JiraCount(inv'[p].reqs) > JiraCount(inv[p].reqs) =>
             IF JiraCount(inv[p].reqs) = 0
               THEN /\ last'.resolved = "returned" /\ last'.tool = inv'[p].tool
                    /\ inv'[p].auth = last'.got
             ELSE inv'[p].auth = inv[p].auth
      /\ last'.rerr = MissingAuthError.message => JiraCount(last'.reqs) = 0 ]_vars
C22_Witness ==
  /\ inv[1].tool = "jira_get_user_worklogs" /\ inv[1].pc = "wl_list"
  /\ JiraCount(inv[1].reqs) >= 3
  /\ inv[1].auth = oauthFromEnv(env) /\ inMemoryAuth = Null

\* C23: no API token, client secret, access token or refresh token appears
\* in an error message returned to a caller or in what is written to the
\* console, failed refreshes and failed Jira requests included.
SecretsOf(a) == {a.apiToken, a.clientSecret, a.accessToken, a.refreshToken} \ {Undef}
Shown ==
  {last.result.message, last.logged.data.client_secret, last.logged.data.refresh_token}
C23_NoSecretShown ==
  Shown \cap (SecretsOf(inMemoryAuth) \cup SecretsOf(last.entry) \cup SecretsOf(last.got)) = {}

\* C24: a bulk edit, watch or unwatch that names more than 1000 issues sends
\* no Jira request and ends with an error.
OverLimit(r) == r.tool \in BulkTools /\ r.loc.ids > BulkLimit
C24_BulkLimit ==
  [][ \A p \in Procs :
        /\ OverLimit(inv'[p]) => JiraCount(inv'[p].reqs) = 0
        /\ (OverLimit(inv[p]) /\ inv'[p].tool = "none") =>
             last'.result.kind = "error" /\ JiraCount(last'.reqs) = 0 ]_vars

\* C25: the durable entry changes only in a write of setAuth asked to
\* persist (to the credential being set) and in the delete of clearAuth;
\* getAuthOrThrow, its refresh, jira_oauth_refresh and a set without
\* persistence leave it as it was.
C25_DurableFrame ==
  [][ stored' # stored =>
        \E p \in Procs :
          \/ /\ inv[p].pc = "set_write" /\ inv[p].persist /\ inv[p].tool \in SetTools
             /\ stored' = JSONstringify(inv[p].auth)
          \/ /\ inv[p].pc = "clr_del" /\ inv[p].tool = "jira_clear_auth"
             /\ stored' = NoEntry ]_vars
C25_Witness ==
  /\ last.refresh = "applied" /\ stored = StoredOAuth
  /\ inMemoryAuth.type = "oauth" /\ stored # JSONstringify(inMemoryAuth)

\* C26 as stated: the slot goes from empty to non-empty only in a step of
\* _internal_jira_set_auth, jira_oauth_exchange_code or
\* jira_oauth_set_tokens; jira_oauth_refresh and the Jira tools, run with an
\* empty slot and a credential from the environment or from keytar, leave
\* the slot empty.
SlotFilled == inMemoryAuth = Null /\ inMemoryAuth' # Null
ReplacedDuringRefresh(p) ==
  /\ inv[p].pc \in {"rf_wait", "mrf_wait"} /\ inv'[p].pc # inv[p].pc
  /\ inMemoryAuth # Null
  /\ inMemoryAuth.type # "oauth" \/ inMemoryAuth.clientId # inv[p].sent.clientId
C27_RefreshSparesReplacement ==
  [][ \A p \in Procs :
        ReplacedDuringRefresh(p) =>
          /\ inMemoryAuth'.accessToken = inMemoryAuth.accessToken
          /\ inMemoryAuth'.refreshToken = inMemoryAuth.refreshToken
          /\ inMemoryAuth'.expiresAt = inMemoryAuth.expiresAt ]_vars

\* C28: a step of jira_oauth_exchange_code before its setAuth (the code
\* exchange, the cloud id resolution), or of jira_oauth_set_tokens before
\* its setAuth (the cloud id resolution), leaves the slot and the durable
\* entry as they were, and when the step fails the tool returns an error.
BootstrapStep(p) ==
  /\ \/ inv[p].pc \in {"ex_tok", "ex_res", "st_res"} /\ inv'[p].pc # inv[p].pc
     \/ inv[p].pc = "idle" /\ inv'[p].pc \in {"ex_tok", "st_res"}
  /\ inv'[p].pc # "set_write" /\ last'.result.kind # "ok"
C28_FailedBootstrap ==
  [][ \A p \in Procs :
        BootstrapStep(p) =>
          /\ inMemoryAuth' = inMemoryAuth /\ stored' = stored
          /\ inv'[p].pc = "idle" => last'.result.kind = "error" ]_vars
C28_Witness ==
  /\ last.tool = "jira_oauth_exchange_code" /\ last.result.kind = "error"
  /\ last.reqs = <<"token", "resources">>
  /\ inMemoryAuth.type = "basic" /\ stored = StoredOAuth

\* C29: jira_get_user_worklogs sends at most 10 page requests to
\* /worklog/updated whatever the pages say, asks for the details in batches
\* of 1 to 1000 ids, and returns.
PageRequests(r) == JiraCount(r.reqs) - (IF r.loc.account THEN 0 ELSE 1)
BoundedPages ==
  \A p \in Procs :
    /\ inv[p].pc = "wl_page" =>
         /\ PageRequests(inv[p]) = inv[p].loc.pageCount + 1
         /\ PageRequests(inv[p]) <= maxPages
    /\ inv[p].pc = "wl_list" =>
         /\ inv[p].loc.pageCount <= maxPages
         /\ inv[p].loc.i < inv[p].loc.ids /\ inv[p].loc.i % WorklogBatch = 0
C29_WorklogsTerminate ==
  /\ []BoundedPages
  /\ (inv[1].tool = "jira_get_user_worklogs") ~> (inv[1].pc = "idle")
C29_Witness ==
  /\ inv[1].pc = "wl_page" /\ inv[1].loc.pageCount = maxPages - 1
  /\ PageRequests(inv[1]) = maxPages

\* C30: when jira_complete_sprint is given a target sprint and succeeds,
\* the body it posted to Jira names that sprint: the target its result
\* reports is a target Jira was asked for.
Directs(body, target) == \E k \in DOMAIN body \ {"state"} : body[k] = target
C30_TargetRequested ==
  (/\ last.tool = "jira_complete_sprint" /\ last.result.kind = "ok"
   /\ last.movedTo.js = "number")
    => /\ JiraCount(last.reqs) = 1
       /\ Directs(last.posted, last.movedTo.val)

====
